---------------------------- MODULE Spec2Model ----------------------------
(***************************************************************************)
(* A model of mini-ulid: the 40-bit identifier packed from a day count, a  *)
(* minute of the day and a 14-bit discriminator, its Crockford Base32 text *)
(* form, the per-minute counter and the random discriminator.              *)
(*                                                                         *)
(* Representation.  TLC's integers are 32 bits wide, so a uint64 is a      *)
(* sequence of W bits, least significant first; uint16 and byte values are *)
(* naturals.  A string is the sequence of its Unicode code points.  A      *)
(* time.Time is a record [d, s, off]: the civil day number (days since     *)
(* 1970-01-01) and second of the day on the wall clock of a zone that is   *)
(* off seconds east of UTC.  Sub-second parts are left out: every          *)
(* operation of the package truncates them with the seconds.               *)
(***************************************************************************)
EXTENDS Integers, Sequences, FiniteSets, TLC

VARIABLES
    res,      \* the last call of the public API: [op, arg, out]
    prev,     \* the generation call before it (ordering of two identifiers)
    mc,       \* defaultMinuteCounter: [minute, value]
    mu,       \* mc.mu: the process holding the lock, or NoProc
    clock,    \* the wall clock, time.Now()
    pc,       \* per process: where its Generate call stands
    now,      \* per process: the time its Generate call read
    counter,  \* per process: what next returned to it
    ret,      \* per process: what its Generate call returned
    last,     \* the last sequential call of minuteCounter.next
    calls     \* how many consecutive calls of next fell in the stored minute

vars == <<res, prev, mc, mu, clock, pc, now, counter, ret, last, calls>>

---------------------------------------------------------------------------
(* Program constants *)

W == 64

daysBits == 15

minutesBits == 11

counterBits == 14

randomBits == 14

totalSize == 8

counterMask == 2^counterBits - 1

randomMask == 2^randomBits - 1

minutesMask == 2^minutesBits - 1

daysMask == 2^daysBits - 1

totalBits == daysBits + minutesBits + counterBits

---------------------------------------------------------------------------
(* uint64 arithmetic on bit sequences *)

Bit(n, k) == IF k > 30 THEN 0 ELSE (n \div 2^k) % 2

\* uint64(n) for a natural n below 2^31
uint64(n) == [i \in 1..W |-> Bit(n, i - 1)]

Shl(b, k) == [i \in 1..W |-> IF i - k >= 1 THEN b[i - k] ELSE 0]

Shr(b, k) == [i \in 1..W |-> IF i + k <= W THEN b[i + k] ELSE 0]

\* v >> k on a signed int64: the sign bit fills from the left
Sar(b, k) == [i \in 1..W |-> IF i + k <= W THEN b[i + k] ELSE b[W]]

BitOr(a, b) == [i \in 1..W |-> IF a[i] = 1 \/ b[i] = 1 THEN 1 ELSE 0]

BitAnd(a, b) == [i \in 1..W |-> IF a[i] = 1 /\ b[i] = 1 THEN 1 ELSE 0]

RECURSIVE LowBits(_, _)
\* the natural held by the low k bits of b (k <= 30)
LowBits(b, k) == IF k = 0 THEN 0 ELSE b[k] * 2^(k - 1) + LowBits(b, k - 1)

uint16(b) == LowBits(b, 16)

RECURSIVE LessFrom(_, _, _)
LessFrom(a, b, i) ==
    IF i = 0 THEN FALSE
    ELSE IF a[i] # b[i] THEN a[i] < b[i]
    ELSE LessFrom(a, b, i - 1)

\* a < b as unsigned integers
Less(a, b) == LessFrom(a, b, W)

Zero64 == uint64(0)

---------------------------------------------------------------------------
(* time.Time *)

SecondsPerDay == 86400

\* time.Date(y, m, dd, h, mi, sec, 0, zone): the civil day number of y-m-dd
DaysFromCivil(y, m, dd) ==
    LET yy  == IF m <= 2 THEN y - 1 ELSE y
        era == yy \div 400
        yoe == yy - era * 400
        mp  == IF m > 2 THEN m - 3 ELSE m + 9
        doy == (153 * mp + 2) \div 5 + dd - 1
        doe == yoe * 365 + yoe \div 4 - yoe \div 100 + doy
    IN  era * 146097 + doe - 719468

Date(y, m, dd, h, mi, sec, off) ==
    [d |-> DaysFromCivil(y, m, dd), s |-> h * 3600 + mi * 60 + sec, off |-> off]

\* t.UTC(): the same instant on the UTC wall clock
UTC(t) ==
    LET u == t.s - t.off
    IN  [d |-> t.d + (u \div SecondsPerDay), s |-> u % SecondsPerDay, off |-> 0]

Hour(t) == t.s \div 3600

Minute(t) == (t.s % 3600) \div 60

\* t.Before(u), t.Equal(u): comparison of instants
Before(t, u) ==
    LET a == UTC(t)
        b == UTC(u)
    IN  a.d < b.d \/ (a.d = b.d /\ a.s < b.s)

Equal(t, u) == UTC(t).d = UTC(u).d /\ UTC(t).s = UTC(u).s

\* t.Truncate(time.Minute) of a UTC time
TruncateMinute(t) == [t EXCEPT !.s = t.s - (t.s % 60)]

\* t.Add(m * time.Minute)
AddMinutes(t, m) ==
    LET u == t.s + m * 60
    IN  [t EXCEPT !.d = t.d + (u \div SecondsPerDay), !.s = u % SecondsPerDay]

\* t.AddDate(0, 0, n)
AddDays(t, n) == [t EXCEPT !.d = t.d + n]

epoch == Date(2020, 1, 1, 0, 0, 0, 0)

\* the zero time.Time, 0001-01-01T00:00:00Z
ZeroTime == Date(1, 1, 1, 0, 0, 0, 0)

IsZero(t) == Equal(t, ZeroTime)

\* the largest time.Duration, in whole days: Sub saturates there
MaxDurationDays == 106751

\* utc.Sub(epoch) / (24 * time.Hour) for utc not before epoch
SubDays(u, e) ==
    LET whole == IF u.s >= e.s THEN u.d - e.d ELSE u.d - e.d - 1
    IN  IF whole > MaxDurationDays THEN MaxDurationDays ELSE whole


---------------------------------------------------------------------------
(* The text alphabet *)

\* "0123456789ABCDEFGHJKMNPQRSTVWXYZ" as code points
encodeAlphabet ==
    << 48, 49, 50, 51, 52, 53, 54, 55, 56, 57,
       65, 66, 67, 68, 69, 70, 71, 72, 74, 75,
       77, 78, 80, 81, 82, 83, 84, 86, 87, 88, 89, 90 >>

\* the alt map: i I l L read as 1, o O read as 0
altKeys == {105, 73, 108, 76, 111, 79}

altValue(c) == IF c \in {111, 79} THEN 0 ELSE 1

IsUpper(c) == c >= 65 /\ c <= 90

\* mutant: the table without the alt map
decodeAlphabetNoAlt ==
    LET symbols == {encodeAlphabet[i] : i \in 1..Len(encodeAlphabet)}
        lowers  == {c + 32 : c \in {x \in symbols : IsUpper(x)}}
        indexOf(c) == CHOOSE i \in 0..(Len(encodeAlphabet) - 1) :
                          \/ encodeAlphabet[i + 1] = c
                          \/ IsUpper(encodeAlphabet[i + 1]) /\ encodeAlphabet[i + 1] + 32 = c
    IN  [c \in symbols \cup lowers |-> indexOf(c)]

\* mutant: the table without the lowercase letters
decodeAlphabetNoLower ==
    LET symbols == {encodeAlphabet[i] : i \in 1..Len(encodeAlphabet)}
        indexOf(c) == CHOOSE i \in 0..(Len(encodeAlphabet) - 1) : encodeAlphabet[i + 1] = c
    IN  [c \in symbols \cup altKeys |->
            IF c \in altKeys THEN altValue(c) ELSE indexOf(c)]

\* the computed decode table: every symbol, the lowercase of every letter,
\* then the alt map written over it
decodeAlphabet ==
    LET symbols == {encodeAlphabet[i] : i \in 1..Len(encodeAlphabet)}
        lowers  == {c + 32 : c \in {x \in symbols : IsUpper(x)}}
        indexOf(c) == CHOOSE i \in 0..(Len(encodeAlphabet) - 1) :
                          \/ encodeAlphabet[i + 1] = c
                          \/ IsUpper(encodeAlphabet[i + 1]) /\ encodeAlphabet[i + 1] + 32 = c
    IN  [c \in symbols \cup lowers \cup altKeys |->
            IF c \in altKeys THEN altValue(c) ELSE indexOf(c)]

\* the decode table written out, of the variant that does not compute it
decodeAlphabetLiteral ==
    (48 :> 0) @@ (49 :> 1) @@ (50 :> 2) @@ (51 :> 3) @@ (52 :> 4) @@ (53 :> 5)
    @@ (54 :> 6) @@ (55 :> 7) @@ (56 :> 8) @@ (57 :> 9) @@ (65 :> 10) @@ (66 :> 11)
    @@ (67 :> 12) @@ (68 :> 13) @@ (69 :> 14) @@ (70 :> 15) @@ (71 :> 16) @@ (72 :> 17)
    @@ (74 :> 18) @@ (75 :> 19) @@ (77 :> 20) @@ (78 :> 21) @@ (80 :> 22) @@ (81 :> 23)
    @@ (82 :> 24) @@ (83 :> 25) @@ (84 :> 26) @@ (86 :> 27) @@ (87 :> 28) @@ (88 :> 29)
    @@ (89 :> 30) @@ (90 :> 31) @@ (97 :> 10) @@ (98 :> 11) @@ (99 :> 12) @@ (100 :> 13)
    @@ (101 :> 14) @@ (102 :> 15) @@ (103 :> 16) @@ (104 :> 17) @@ (106 :> 18) @@ (107 :> 19)
    @@ (109 :> 20) @@ (110 :> 21) @@ (112 :> 22) @@ (113 :> 23) @@ (114 :> 24) @@ (115 :> 25)
    @@ (116 :> 26) @@ (118 :> 27) @@ (119 :> 28) @@ (120 :> 29) @@ (121 :> 30) @@ (122 :> 31)
    @@ (105 :> 1) @@ (73 :> 1) @@ (108 :> 1) @@ (76 :> 1) @@ (111 :> 0) @@ (79 :> 0)

---------------------------------------------------------------------------
(* Results: [ok, err, id]; err names the error value returned *)

Ok(id) == [ok |-> TRUE, err |-> "nil", id |-> id]

Fail(e) == [ok |-> FALSE, err |-> e, id |-> Zero64]

---------------------------------------------------------------------------
(* The package *)

\* mutant: the wall clock of t's own zone, t.UTC() forgotten
splitTimeLocal(t) ==
    LET utc  == [t EXCEPT !.off = 0]
        days == SubDays(utc, epoch)
    IN  IF Before(utc, epoch)
        THEN [days |-> 0, minuteOfDay |-> 0, err |-> "errTimePast"]
        ELSE IF days >= 2^daysBits
        THEN [days |-> 0, minuteOfDay |-> 0, err |-> "errTimeFuture"]
        ELSE [days |-> days % 65536,
              minuteOfDay |-> (Hour(utc) * 60 + Minute(utc)) % 65536,
              err |-> "nil"]

\* mutant: the range check off by one, day 32768 let through
splitTimeOffByOne(t) ==
    LET utc  == UTC(t)
        days == SubDays(utc, epoch)
    IN  IF Before(utc, epoch)
        THEN [days |-> 0, minuteOfDay |-> 0, err |-> "errTimePast"]
        ELSE IF days > 2^daysBits
        THEN [days |-> 0, minuteOfDay |-> 0, err |-> "errTimeFuture"]
        ELSE [days |-> days % 65536,
              minuteOfDay |-> (Hour(utc) * 60 + Minute(utc)) % 65536,
              err |-> "nil"]

\* mutant: the minute rounded to the nearest, not truncated
splitTimeRounded(t) ==
    LET utc  == UTC(t)
        days == SubDays(utc, epoch)
    IN  IF Before(utc, epoch)
        THEN [days |-> 0, minuteOfDay |-> 0, err |-> "errTimePast"]
        ELSE IF days >= 2^daysBits
        THEN [days |-> 0, minuteOfDay |-> 0, err |-> "errTimeFuture"]
        ELSE [days |-> days % 65536,
              minuteOfDay |-> (Hour(utc) * 60 + Minute(utc)
                                  + (IF utc.s % 60 >= 30 THEN 1 ELSE 0)) % 65536,
              err |-> "nil"]

splitTime(t) ==
    LET utc  == UTC(t)
        days == SubDays(utc, epoch)
    IN  IF Before(utc, epoch)
        THEN [days |-> 0, minuteOfDay |-> 0, err |-> "errTimePast"]
        ELSE IF days >= 2^daysBits
        THEN [days |-> 0, minuteOfDay |-> 0, err |-> "errTimeFuture"]
        ELSE [days |-> days % 65536,
              minuteOfDay |-> (Hour(utc) * 60 + Minute(utc)) % 65536,
              err |-> "nil"]

\* the value packed by GenerateWithComponents and GenerateWithTime
pack(dayCount, minuteOfDay, low) ==
    BitOr(BitOr(Shl(uint64(dayCount), minutesBits + counterBits),
                Shl(uint64(minuteOfDay), counterBits)),
          uint64(low))

GenerateWithComponents(t, ctr) ==
    LET sp == splitTime(t)
    IN  IF ctr > counterMask THEN Fail("counter value overflow")
        ELSE IF sp.err # "nil" THEN Fail(sp.err)
        ELSE Ok(pack(sp.days, sp.minuteOfDay, ctr))

\* random14: entropy is the sequence of bytes the reader still holds;
\* io.ReadFull fails when fewer than two are left.  In Go << and & bind
\* equally and tighter than |, so the mask applies to buffer[1] alone.
random14(entropy) ==
    IF Len(entropy) < 2
    THEN [value |-> 0, err |-> "EOF"]
    ELSE [value |-> uint16(BitOr(Shl(uint64(entropy[1]), 8),
                                 BitAnd(uint64(entropy[2]), uint64(randomMask)))),
          err |-> "nil"]

GenerateWithTime(t, entropy) ==
    LET sp == splitTime(t)
        rv == random14(entropy)
    IN  IF sp.err # "nil" THEN Fail(sp.err)
        ELSE IF rv.err # "nil" THEN Fail("random entropy")
        ELSE Ok(BitOr(BitOr(Shl(uint64(sp.days), minutesBits + randomBits),
                            Shl(uint64(sp.minuteOfDay), randomBits)),
                      uint64(rv.value)))

\* the bytes of a code point in UTF-8
RuneLen(r) == IF r < 128 THEN 1 ELSE IF r < 2048 THEN 2 ELSE IF r < 65536 THEN 3 ELSE 4

RECURSIVE ByteLen(_)
\* len(encoded): the length in bytes
ByteLen(s) == IF s = <<>> THEN 0 ELSE RuneLen(Head(s)) + ByteLen(Tail(s))

RECURSIVE ParseLoop(_, _)
\* for _, r := range encoded: one turn per code point, c := byte(r)
ParseLoop(s, value) ==
    IF s = <<>> THEN Ok(value)
    ELSE LET c == Head(s) % 256
         IN  IF c \notin DOMAIN decodeAlphabet THEN Fail("errInvalidChar")
             ELSE ParseLoop(Tail(s), BitOr(Shl(value, 5), uint64(decodeAlphabet[c])))

Parse(encoded) ==
    IF ByteLen(encoded) # totalSize THEN Fail("errLength")
    ELSE ParseLoop(encoded, Zero64)

RECURSIVE ParseLoopLiteral(_, _)
\* Parse of the variant with the written-out table
ParseLoopLiteral(s, value) ==
    IF s = <<>> THEN Ok(value)
    ELSE LET c == Head(s) % 256
         IN  IF c \notin DOMAIN decodeAlphabetLiteral THEN Fail("errInvalidChar")
             ELSE ParseLoopLiteral(Tail(s),
                                   BitOr(Shl(value, 5), uint64(decodeAlphabetLiteral[c])))

ParseLiteral(encoded) ==
    IF ByteLen(encoded) # totalSize THEN Fail("errLength")
    ELSE ParseLoopLiteral(encoded, Zero64)

\* v is the int64 as its 64 bits in two's complement
FromInt64(v) ==
    IF v[W] = 1 THEN Fail("negative value")
    ELSE IF Sar(v, totalBits) # Zero64 THEN Fail("value exceeds bits")
    ELSE Ok(v)

Int64(id) == id

\* mutant: the buffer filled from the left, the least significant group first
StringLowFirst(id) ==
    [i \in 1..totalSize |-> encodeAlphabet[LowBits(Shr(id, 5 * (i - 1)), 5) + 1]]

\* ID.String: buf[i] is the symbol of the 5-bit group i, filled from the right
String(id) ==
    [i \in 1..totalSize |-> encodeAlphabet[LowBits(Shr(id, 5 * (totalSize - i)), 5) + 1]]

\* ID.Components
Components(id) ==
    [days        |-> uint16(BitAnd(Shr(id, counterBits + minutesBits), uint64(daysMask))),
     minuteOfDay |-> uint16(BitAnd(Shr(id, counterBits), uint64(minutesMask))),
     counter     |-> uint16(BitAnd(id, uint64(counterMask)))]

\* ID.Time
Time(id) ==
    LET c == Components(id)
    IN  AddMinutes(AddDays(epoch, c.days), c.minuteOfDay)

\* mutant: no overflow check, the value runs past counterMask
nextWraps(m, t) ==
    LET currentMinute == TruncateMinute(UTC(t))
    IN  IF IsZero(m.minute) \/ ~Equal(m.minute, currentMinute)
        THEN [mc |-> [minute |-> currentMinute, value |-> 0], value |-> 0, err |-> "nil"]
        ELSE [mc |-> [m EXCEPT !.value = (m.value + 1) % 65536],
              value |-> (m.value + 1) % 65536, err |-> "nil"]

\* mutant: a new minute is stored but the value is not reset
nextStale(m, t) ==
    LET currentMinute == TruncateMinute(UTC(t))
    IN  IF IsZero(m.minute) \/ ~Equal(m.minute, currentMinute)
        THEN [mc |-> [minute |-> currentMinute, value |-> m.value], value |-> 0, err |-> "nil"]
        ELSE IF m.value = counterMask
        THEN [mc |-> m, value |-> 0, err |-> "counter overflow"]
        ELSE [mc |-> [m EXCEPT !.value = (m.value + 1) % 65536],
              value |-> (m.value + 1) % 65536, err |-> "nil"]

\* minuteCounter.next, the part run under mc.mu: [mc, value, err]
next(m, t) ==
    LET currentMinute == TruncateMinute(UTC(t))
    IN  IF IsZero(m.minute) \/ ~Equal(m.minute, currentMinute)
        THEN [mc |-> [minute |-> currentMinute, value |-> 0], value |-> 0, err |-> "nil"]
        ELSE IF m.value = counterMask
        THEN [mc |-> m, value |-> 0, err |-> "counter overflow"]
        ELSE [mc |-> [m EXCEPT !.value = (m.value + 1) % 65536],
              value |-> (m.value + 1) % 65536, err |-> "nil"]


---------------------------------------------------------------------------
(* Inputs of the public API *)

\* a time dd days and ss seconds after the epoch, on the clock of zone off
At(dd, ss, off) ==
    LET w == ss + off
    IN  [d |-> epoch.d + dd + (w \div SecondsPerDay), s |-> w % SecondsPerDay, off |-> off]

\* the README's example time and the test's time
ExampleTime == Date(2024, 8, 18, 15, 30, 0, 0)

TestTime == Date(2023, 5, 15, 12, 34, 56, -7 * 3600)

EntropyTestTime == Date(2024, 7, 30, 8, 0, 0, 0)

DayInputs == {-1, 0, 1, 1691, 32767, 32768, 200000}

SecInputs == {0, 59, 60, 1829, 43230, 55800, 86340, 86399}

ZoneInputs == {0, -7 * 3600, 5 * 3600 + 1800, 14 * 3600}

TimeInputs ==
    {At(dd, ss, off) : dd \in DayInputs, ss \in SecInputs, off \in ZoneInputs}
        \cup {ExampleTime, TestTime, EntropyTestTime}

DiscInputs == {0, 1, 1234, 6862, 16383, 16384, 65535}

ByteInputs == {0, 18, 52, 64, 255}

\* what the entropy reader holds: two bytes, or too few
EntropyInputs == {<<b0, b1>> : b0 \in ByteInputs, b1 \in ByteInputs} \cup {<<>>, <<7>>}

\* b with its 5-bit group i (1 the most significant of the 8) set to g
WithGroup(b, i, g) ==
    LET lo == 5 * (totalSize - i)
    IN  [k \in 1..W |-> IF k > lo /\ k <= lo + 5 THEN Bit(g, k - 1 - lo) ELSE b[k]]

Ones40 == [k \in 1..W |-> IF k <= totalBits THEN 1 ELSE 0]

ExampleValue == pack(1691, 930, 1234)

IdBases == {Zero64, Ones40, ExampleValue}

IdInputs == {WithGroup(b, i, g) : b \in IdBases, i \in 1..totalSize, g \in 0..31}

\* int64 arguments: 40-bit values, and values with one more bit set
Int64Inputs ==
    IdBases \cup {[b EXCEPT ![k] = 1] : b \in IdBases, k \in {1, 40, 41, 42, 63, 64}}

\* code points: every digit and letter with the characters around them,
\* punctuation, and multi-byte code points (U+0130, U+0141, U+00E9, U+20AC, U+1F600)
RuneInputs ==
    (47..58) \cup (64..91) \cup (96..123) \cup {33, 32, 304, 321, 233, 8364, 128512}

StrBases ==
    { <<49, 109, 118, 101, 104, 49, 54, 106>>,    \* "1mveh16j"
      <<48, 70, 53, 86, 68, 51, 89, 72>>,         \* "0F5VD3YH"
      <<48, 102, 53, 118, 100, 51, 121, 104>>,    \* "0f5vd3yh"
      <<90, 90, 90, 90, 90, 90, 90, 90>>,         \* "ZZZZZZZZ"
      <<33, 33, 33, 33, 33, 33, 33, 33>>,         \* "!!!!!!!!"
      <<65, 66, 67>>,                             \* "ABC"
      <<48, 48, 48, 48, 48, 48, 48>>,             \* seven characters
      <<48, 48, 48, 48, 48, 48, 48, 48, 48>>,     \* nine characters
      <<>> }

StrInputs ==
    StrBases \cup
        UNION {{[b EXCEPT ![i] = r] : i \in 1..Len(b), r \in RuneInputs} : b \in StrBases}

\* the readings of the wall clock a sequential caller of Generate sees
GenTimes == {At(1691, 55800, 0), At(1691, 55859, 0), At(1691, 55860, 0)}

ClockStart == At(1691, 55800, 0)

\* Generate calls a run makes within one minute
MaxGenerate == 3

---------------------------------------------------------------------------
(* State *)

NoCall == [op |-> "none", arg |-> <<>>, out |-> [ok |-> FALSE, err |-> "none", id |-> <<>>],
           str |-> <<>>]

Call(op, arg, out) == [op |-> op, arg |-> arg, out |-> out, str |-> <<>>]

NoProc == 0

mcZero == [minute |-> ZeroTime, value |-> 0]

NoLast == [t |-> ZeroTime, pre |-> mcZero, value |-> 0, err |-> "none"]

\* the variables of the concurrent callers, unused by the sequential API
ProcsIdle ==
    /\ mu = NoProc
    /\ pc = <<>>
    /\ now = <<>>
    /\ counter = <<>>
    /\ ret = <<>>

Init ==
    /\ res = NoCall
    /\ prev = NoCall
    /\ mc = mcZero
    /\ clock = ClockStart
    /\ last = NoLast
    /\ calls = 0
    /\ ProcsIdle

\* an identifier was returned by the last call
Returned(c) == c.op \in {"Generate", "GenerateRandom", "GenerateWithComponents",
                         "GenerateWithTime", "Parse", "FromInt64"} /\ c.out.ok

\* Generate of the counter variant, by one caller at a time
Generate(t) ==
    LET nx == next(mc, t)
    IN  /\ ~Before(t, clock)
        /\ mc.value < MaxGenerate
        /\ clock' = t
        /\ mc' = nx.mc
        /\ res' = Call("Generate", [t |-> t],
                       IF nx.err # "nil" THEN Fail(nx.err)
                       ELSE GenerateWithComponents(t, nx.value))

\* Generate of the random variant: the time read and what crypto/rand holds
GenerateRandom(t, entropy) ==
    /\ res' = Call("GenerateRandom", [t |-> t, entropy |-> entropy],
                   GenerateWithTime(UTC(t), entropy))
    /\ UNCHANGED <<mc, clock>>

DoGenerateWithComponents(t, disc) ==
    /\ res' = Call("GenerateWithComponents", [t |-> t, disc |-> disc],
                   GenerateWithComponents(t, disc))
    /\ UNCHANGED <<mc, clock>>

DoGenerateWithTime(t, entropy) ==
    /\ res' = Call("GenerateWithTime", [t |-> t, entropy |-> entropy],
                   GenerateWithTime(t, entropy))
    /\ UNCHANGED <<mc, clock>>

\* from is the identifier whose String() is parsed (<<>> for any other text),
\* lower whether that text was put in lowercase first
DoParse(s, from, lower) ==
    /\ res' = Call("Parse", [s |-> s, from |-> from, lower |-> lower], Parse(s))
    /\ UNCHANGED <<mc, clock>>

DoParseLiteral(s) ==
    /\ res' = Call("ParseLiteral", [s |-> s, from |-> <<>>, lower |-> FALSE], ParseLiteral(s))
    /\ UNCHANGED <<mc, clock>>

DoFromInt64(v) ==
    /\ res' = Call("FromInt64", [v |-> v], FromInt64(v))
    /\ UNCHANGED <<mc, clock>>

DoString(x) ==
    /\ res' = [op |-> "String", arg |-> [x |-> x], out |-> Ok(x), str |-> String(x)]
    /\ UNCHANGED <<mc, clock>>

\* s with its capital letters in lowercase
Lower(s) == [i \in 1..Len(s) |-> IF IsUpper(s[i]) THEN s[i] + 32 ELSE s[i]]

\* what a call of the sequential API leaves alone
Sequential == UNCHANGED <<prev, mu, pc, now, counter, ret, last, calls>>

\* One call on given arguments; String then of the identifier a call returned,
\* Parse then of the text String returned; Generate any number of times.
CallGenerate ==
    /\ res.op \in {"none", "Generate"}
    /\ \E t \in GenTimes : Generate(t)
    /\ Sequential

CallGenerateRandom ==
    /\ res.op = "none"
    /\ \E t \in GenTimes, e \in EntropyInputs : GenerateRandom(t, e)
    /\ Sequential

CallGenerateWithComponents ==
    /\ res.op = "none"
    /\ \E t \in TimeInputs, disc \in DiscInputs : DoGenerateWithComponents(t, disc)
    /\ Sequential

CallGenerateWithTime ==
    /\ res.op = "none"
    /\ \E t \in TimeInputs, e \in EntropyInputs : DoGenerateWithTime(t, e)
    /\ Sequential

CallParse ==
    /\ res.op = "none"
    /\ \E s \in StrInputs : DoParse(s, <<>>, FALSE)
    /\ Sequential

CallParseLiteral ==
    /\ res.op = "none"
    /\ \E s \in StrInputs : DoParseLiteral(s)
    /\ Sequential

CallParseOfString ==
    /\ res.op = "String"
    /\ \/ DoParse(res.str, res.arg.x, FALSE)
       \/ DoParse(Lower(res.str), res.arg.x, TRUE)
    /\ Sequential

CallFromInt64 ==
    /\ res.op = "none"
    /\ \E v \in Int64Inputs : DoFromInt64(v)
    /\ Sequential

CallString ==
    /\ res.op = "none"
    /\ \E x \in IdInputs : DoString(x)
    /\ Sequential

CallStringOfReturned ==
    /\ Returned(res)
    /\ DoString(res.out.id)
    /\ Sequential

Next ==
    \/ CallGenerate
    \/ CallGenerateRandom
    \/ CallGenerateWithComponents
    \/ CallGenerateWithTime
    \/ CallParse
    \/ CallParseLiteral
    \/ CallParseOfString
    \/ CallFromInt64
    \/ CallString
    \/ CallStringOfReturned

Spec == Init /\ [][Next]_vars


---------------------------------------------------------------------------
(* Two generation calls in a row: the second remembers the first *)

OrderTimes ==
    {At(0, 0, 0), At(0, 59, 0), At(0, 60, -7 * 3600), At(0, 86399, 0),
     At(1, 0, 5 * 3600 + 1800), At(1691, 55800, 0)}

OrderDiscs == {0, 5, 16383}

OrderEntropy == {<<0, 0>>, <<0, 5>>, <<64, 0>>, <<255, 255>>}

\* what a call of a pair leaves alone; the call before it is kept in prev
Paired ==
    /\ prev.op = "none"
    /\ prev' = res
    /\ UNCHANGED <<mu, pc, now, counter, ret, last, calls>>

\* A program holds one variant of the package: the counter variant has Generate
\* on the counter, the random variant GenerateWithTime; both have
\* GenerateWithComponents.
PairGenerate ==
    /\ res.op \in {"none", "Generate", "GenerateWithComponents"}
    /\ \E t \in GenTimes : Generate(t)
    /\ Paired

PairGenerateWithComponents ==
    /\ prev.op = "none"
    /\ \E t \in OrderTimes, disc \in OrderDiscs : DoGenerateWithComponents(t, disc)
    /\ Paired

PairGenerateWithTime ==
    /\ res.op \in {"none", "GenerateWithTime", "GenerateWithComponents"}
    /\ \E t \in OrderTimes, e \in OrderEntropy : DoGenerateWithTime(t, e)
    /\ Paired

NextPair ==
    \/ PairGenerate
    \/ PairGenerateWithComponents
    \/ PairGenerateWithTime

SpecPair == Init /\ [][NextPair]_vars

---------------------------------------------------------------------------
(* One caller of minuteCounter.next after another *)

\* 15:30:00, 15:30:59 told in another zone, 15:31:00
CounterTimes == {At(1691, 55800, 0), At(1691, 55859, -7 * 3600), At(1691, 55860, 0)}

\* calls made in a minute after its 16384 values are spent
MaxOverflowCalls == 2

\* t and u lie in the same UTC minute
SameMinute(t, u) ==
    /\ t.d + ((t.s - t.off) \div SecondsPerDay) = u.d + ((u.s - u.off) \div SecondsPerDay)
    /\ ((t.s - t.off) % SecondsPerDay) \div 60 = ((u.s - u.off) % SecondsPerDay) \div 60

CallNext(t) ==
    LET nx == next(mc, t)
        n  == IF last.err # "none" /\ SameMinute(t, last.t) THEN calls + 1 ELSE 1
    IN  /\ n <= counterMask + 1 + MaxOverflowCalls
        /\ mc' = nx.mc
        /\ last' = [t |-> t, pre |-> mc, value |-> nx.value, err |-> nx.err]
        /\ calls' = n
        /\ UNCHANGED <<res, prev, mu, clock, pc, now, counter, ret>>

NextCounter == \E t \in CounterTimes : CallNext(t)

SpecCounter == Init /\ [][NextCounter]_vars

---------------------------------------------------------------------------
(* Concurrent callers of Generate on defaultMinuteCounter *)

NumProcs == 3

Procs == 1..NumProcs

\* the wall clock moves on by TickSeconds, MaxTicks times
TickSeconds == 30

MaxTicks == 2

ConcClockStart == At(1691, 55830, 0)

InitConc ==
    /\ res = NoCall
    /\ prev = NoCall
    /\ mc = mcZero
    /\ mu = NoProc
    /\ clock = ConcClockStart
    /\ pc = [p \in Procs |-> "start"]
    /\ now = [p \in Procs |-> ZeroTime]
    /\ counter = [p \in Procs |-> 0]
    /\ ret = [p \in Procs |-> [ok |-> FALSE, err |-> "none", id |-> <<>>]]
    /\ last = NoLast
    /\ calls = 0

Tick ==
    /\ clock.s + TickSeconds <= ConcClockStart.s + MaxTicks * TickSeconds
    /\ clock' = [clock EXCEPT !.s = clock.s + TickSeconds]
    /\ UNCHANGED <<res, prev, mc, mu, pc, now, counter, ret, last, calls>>

\* now := time.Now().UTC()
ReadClock(p) ==
    /\ pc[p] = "start"
    /\ now' = [now EXCEPT ![p] = UTC(clock)]
    /\ pc' = [pc EXCEPT ![p] = "lock"]
    /\ UNCHANGED <<res, prev, mc, mu, clock, counter, ret, last, calls>>

\* mc.mu.Lock()
Lock(p) ==
    /\ pc[p] = "lock"
    /\ mu = NoProc
    /\ mu' = p
    /\ pc' = [pc EXCEPT ![p] = "next"]
    /\ UNCHANGED <<res, prev, mc, clock, now, counter, ret, last, calls>>

\* the body of next and the deferred mc.mu.Unlock(); Generate returns the error
NextLocked(p) ==
    LET nx == next(mc, now[p])
    IN  /\ pc[p] = "next"
        /\ mu = p
        /\ mc' = nx.mc
        /\ mu' = NoProc
        /\ IF nx.err # "nil"
           THEN /\ ret' = [ret EXCEPT ![p] = Fail(nx.err)]
                /\ pc' = [pc EXCEPT ![p] = "done"]
                /\ UNCHANGED counter
           ELSE /\ counter' = [counter EXCEPT ![p] = nx.value]
                /\ pc' = [pc EXCEPT ![p] = "pack"]
                /\ UNCHANGED ret
        /\ UNCHANGED <<res, prev, clock, now, last, calls>>

\* return GenerateWithComponents(now, counter)
Pack(p) ==
    /\ pc[p] = "pack"
    /\ ret' = [ret EXCEPT ![p] = GenerateWithComponents(now[p], counter[p])]
    /\ pc' = [pc EXCEPT ![p] = "done"]
    /\ UNCHANGED <<res, prev, mc, mu, clock, now, counter, last, calls>>

NextConc ==
    \/ Tick
    \/ \E p \in Procs : ReadClock(p)
    \/ \E p \in Procs : Lock(p)
    \/ \E p \in Procs : NextLocked(p)
    \/ \E p \in Procs : Pack(p)

SpecConc == InitConc /\ [][NextConc]_vars

---------------------------------------------------------------------------
(* Goroutines calling minuteCounter.next on one counter, again and again, *)
(* with timestamps of one UTC minute; the body of next in its steps       *)

\* calls of next begun, all goroutines together
MaxLockCalls == 16385

LockZones == <<0, -7 * 3600, 5 * 3600 + 1800>>

\* the timestamp goroutine p passes: a second of 15:30 UTC on the clock of a zone
LockTime(p) == At(1691, 55800 + ((23 * p) % 60), LockZones[((p - 1) % Len(LockZones)) + 1])

\* nothing computed by next yet
NoNext == [mc |-> mcZero, value |-> 0, err |-> "none"]

\* the values returned so far: low says each of 0..low-1 was returned once,
\* rest holds the other values returned, dup that one was returned twice
NoneReturned == [low |-> 0, rest |-> {}, dup |-> FALSE]

Returns(h, v) ==
    IF v < h.low \/ v \in h.rest THEN [h EXCEPT !.dup = TRUE]
    ELSE LET r == h.rest \cup {v}
             n == CHOOSE n \in h.low..(h.low + Cardinality(r)) :
                      n \notin r /\ \A m \in h.low..(n - 1) : m \in r
         IN  [low |-> n, rest |-> {x \in r : x >= n}, dup |-> h.dup]

InitLock ==
    /\ res = NoCall
    /\ prev = NoCall
    /\ mc = mcZero
    /\ mu = NoProc
    /\ clock = ConcClockStart
    /\ pc = [p \in Procs |-> "lock"]
    /\ now = [p \in Procs |-> LockTime(p)]
    /\ counter = [p \in Procs |-> 0]
    /\ ret = [p \in Procs |-> NoNext]
    /\ last = NoneReturned
    /\ calls = 0

\* mutant: Lock that does not wait for the holder
LockNextNoWait(p) ==
    /\ pc[p] = "lock"
    /\ calls < MaxLockCalls
    /\ mu' = p
    /\ calls' = calls + 1
    /\ pc' = [pc EXCEPT ![p] = "read"]
    /\ UNCHANGED <<res, prev, mc, clock, now, counter, ret, last>>

\* p calls next: mc.mu.Lock() returns once nobody holds the lock
LockNext(p) ==
    /\ pc[p] = "lock"
    /\ calls < MaxLockCalls
    /\ mu = NoProc
    /\ mu' = p
    /\ calls' = calls + 1
    /\ pc' = [pc EXCEPT ![p] = "read"]
    /\ UNCHANGED <<res, prev, mc, clock, now, counter, ret, last>>

\* p reads mc.minute and mc.value and decides what to do
NextRead(p) ==
    /\ pc[p] = "read"
    /\ ret' = [ret EXCEPT ![p] = next(mc, now[p])]
    /\ pc' = [pc EXCEPT ![p] = "store"]
    /\ UNCHANGED <<res, prev, mc, mu, clock, now, counter, last, calls>>

\* p writes mc.minute and mc.value, unless it found the counter spent
NextStore(p) ==
    /\ pc[p] = "store"
    /\ IF ret[p].err = "nil"
       THEN /\ mc' = ret[p].mc
            /\ counter' = [counter EXCEPT ![p] = ret[p].value]
       ELSE UNCHANGED <<mc, counter>>
    /\ pc' = [pc EXCEPT ![p] = "unlock"]
    /\ UNCHANGED <<res, prev, mu, clock, now, ret, last, calls>>

\* the deferred mc.mu.Unlock(), and next returns; p is to call again
Unlock(p) ==
    /\ pc[p] = "unlock"
    /\ mu' = NoProc
    /\ last' = IF ret[p].err = "nil" THEN Returns(last, counter[p]) ELSE last
    /\ counter' = [counter EXCEPT ![p] = 0]
    /\ ret' = [ret EXCEPT ![p] = NoNext]
    /\ pc' = [pc EXCEPT ![p] = "lock"]
    /\ UNCHANGED <<res, prev, mc, clock, now, calls>>

NextLock ==
    \/ \E p \in Procs : LockNext(p)
    \/ \E p \in Procs : NextRead(p)
    \/ \E p \in Procs : NextStore(p)
    \/ \E p \in Procs : Unlock(p)

SpecLock == InitLock /\ [][NextLock]_vars

---------------------------------------------------------------------------
(* What the claims speak of, stated from their words *)

\* whole days and second of the day of the instant t, counted from the epoch
InstDay(t) == t.d + ((t.s - t.off) \div SecondsPerDay) - epoch.d

InstSec(t) == (t.s - t.off) % SecondsPerDay

\* epoch <= t < epoch + 32768 days
ValidTime(t) == InstDay(t) >= 0 /\ InstDay(t) < 32768

\* UTC hour * 60 + UTC minute
MinuteOfDayOf(t) == (InstSec(t) \div 3600) * 60 + (InstSec(t) % 3600) \div 60

\* t in UTC, truncated to the minute
TruncatedUTC(t) ==
    [d |-> epoch.d + InstDay(t), s |-> InstSec(t) - (InstSec(t) % 60), off |-> 0]

\* days << 25 | minute << 14 | disc
Packed(days, minute, disc) ==
    BitOr(BitOr(Shl(uint64(days), 25), Shl(uint64(minute), 14)), uint64(disc))

\* the code points Parse is to accept: the digits and every letter but U and u
AcceptedChars == (48..57) \cup ((65..90) \ {85}) \cup ((97..122) \ {117})

\* the 5-bit group i of x, 1 the most significant of the 8
GroupOf(x, i) ==
    LET lo == 5 * (8 - i)
    IN  x[lo + 1] + 2 * x[lo + 2] + 4 * x[lo + 3] + 8 * x[lo + 4] + 16 * x[lo + 5]

GenerationOps == {"Generate", "GenerateRandom", "GenerateWithComponents", "GenerateWithTime"}

---------------------------------------------------------------------------
(* C4: for every valid time and every two entropy bytes b0, b1 the value   *)
(* drawn is ((b0 << 8) | b1) & 0x3FFF, at most 16383, and GenerateWithTime *)
(* returns the identifier of (days(t), minuteOfDay(t), that value), whose  *)
(* Time() is t truncated to the minute.                                    *)
C4_RandomValueMasked ==
    (res.op = "GenerateWithTime" /\ ValidTime(res.arg.t) /\ Len(res.arg.entropy) = 2) =>
        LET v == (res.arg.entropy[1] * 256 + res.arg.entropy[2]) % 16384
        IN  /\ random14(res.arg.entropy).value = v
            /\ random14(res.arg.entropy).value <= 16383
            /\ res.out.ok
            /\ Components(res.out.id) =
                   [days |-> InstDay(res.arg.t),
                    minuteOfDay |-> MinuteOfDayOf(res.arg.t),
                    counter |-> v]
            /\ Time(res.out.id) = TruncatedUTC(res.arg.t)

(* C5: Parse fails with the length error whenever s is not exactly 8       *)
(* characters, with the invalid-character error whenever a character of an *)
(* 8-character s is outside the accepted set, and returns an identifier    *)
(* only for 8 accepted characters.                                         *)
C5_ParseRejects ==
    res.op = "Parse" =>
        LET s == res.arg.s
            accepted == \A i \in 1..Len(s) : s[i] \in AcceptedChars
        IN  /\ Len(s) # 8 => (~res.out.ok /\ res.out.err = "errLength")
            /\ (Len(s) = 8 /\ ~accepted) => (~res.out.ok /\ res.out.err = "errInvalidChar")
            /\ res.out.ok => (Len(s) = 8 /\ accepted)

(* C6: for every 40-bit x, String() is 8 symbols of the alphabet, the most *)
(* significant 5-bit group first, and Parse of that text returns x.        *)
C6_TextRoundTrip ==
    /\ res.op = "String" =>
           /\ Len(res.str) = 8
           /\ \A i \in 1..8 : res.str[i] = encodeAlphabet[GroupOf(res.arg.x, i) + 1]
    /\ (res.op = "Parse" /\ res.arg.from # <<>> /\ ~res.arg.lower) =>
           (res.out.ok /\ res.out.id = res.arg.from)

C6_Witness ==
    /\ res.op = "Parse"
    /\ res.arg.from = WithGroup(Ones40, 3, 17)
    /\ ~res.arg.lower
    /\ res.arg.s = <<90, 90, 72, 90, 90, 90, 90, 90>>
    /\ res.out.ok

(* C7: for every valid time, in any zone, and every disc <= 16383 the      *)
(* identifier of GenerateWithComponents(t, disc) has Components() equal to *)
(* (floor((t - epoch) / 1 day), UTC hour * 60 + UTC minute, disc) and      *)
(* Time() equal to t in UTC truncated to the minute.                       *)
C7_ComponentRoundTrip ==
    (res.op = "GenerateWithComponents" /\ ValidTime(res.arg.t) /\ res.arg.disc <= 16383) =>
        /\ res.out.ok
        /\ Components(res.out.id) =
               [days |-> InstDay(res.arg.t),
                minuteOfDay |-> MinuteOfDayOf(res.arg.t),
                counter |-> res.arg.disc]
        /\ Time(res.out.id) = TruncatedUTC(res.arg.t)

C7_Witness ==
    /\ res.op = "GenerateWithComponents"
    /\ res.arg.t = TestTime
    /\ res.arg.disc = 6862
    /\ res.out.ok
    /\ Components(res.out.id) = [days |-> 1230, minuteOfDay |-> 1174, counter |-> 6862]

C10_MinuteInRangeAll ==
    Returned(res) => Components(res.out.id).minuteOfDay \in 0..1439

(* C10 amended: every identifier returned by a generation operation        *)
(* (Generate, GenerateWithComponents, GenerateWithTime) has a minuteOfDay  *)
(* within 0..1439.                                                         *)
C10_MinuteInRange ==
    (res.op \in GenerationOps /\ res.out.ok) =>
        Components(res.out.id).minuteOfDay \in 0..1439

\* the last minute of a day, with entropy whose high bits are all set
C10_Witness ==
    /\ res.op = "GenerateWithTime"
    /\ res.out.ok
    /\ res.arg.entropy = <<255, 255>>
    /\ MinuteOfDayOf(res.arg.t) = 1439
    /\ Components(res.out.id).minuteOfDay = 1439


(* C1: with any number of concurrent callers of Generate on the one shared *)
(* counter, a wall clock that never goes back and any interleaving of      *)
(* their steps, no two successful calls return the same identifier.        *)
C1_NoDuplicateIds ==
    \A p \in Procs, q \in Procs :
        (p # q /\ pc[p] = "done" /\ pc[q] = "done" /\ ret[p].ok /\ ret[q].ok) =>
            ret[p].id # ret[q].id

(* C2: the n-th of consecutive calls of next in one UTC minute returns     *)
(* n - 1 for n <= 16384; every later call in that minute fails with the    *)
(* counter overflow error and leaves (minute, value) as it was.            *)
C2_CounterSequence ==
    last.err # "none" =>
        /\ calls <= 16384 => (last.err = "nil" /\ last.value = calls - 1 /\ mc.value = calls - 1)
        /\ calls > 16384 => (last.err = "counter overflow" /\ mc = last.pre)

\* the call after the 16385th, failing like it
C2_Witness ==
    /\ calls = 16386
    /\ last.err = "counter overflow"
    /\ mc.value = 16383
    /\ last.pre = mc

(* C3: a call of next whose minute is new to the counter, or the first     *)
(* call on it, succeeds, returns 0 and leaves (that minute, 0), whatever   *)
(* the value before, 16383 included.                                       *)
C3_Rollover ==
    (last.err # "none" /\ (last.pre = mcZero \/ ~SameMinute(last.t, last.pre.minute))) =>
        /\ last.err = "nil"
        /\ last.value = 0
        /\ mc = [minute |-> TruncatedUTC(last.t), value |-> 0]

\* the minute before was spent to its last value
C3_Witness ==
    /\ last.err = "nil"
    /\ last.pre.value = 16383
    /\ ~SameMinute(last.t, last.pre.minute)
    /\ last.value = 0
    /\ mc.value = 0

(* C9: of two identifiers returned by generation operations for valid      *)
(* times, the one of the earlier UTC minute is the smaller integer; in the *)
(* same minute they are ordered as their discriminators are.               *)
C9_ChronologicalOrder ==
    (prev.op \in GenerationOps /\ res.op \in GenerationOps /\ prev.out.ok /\ res.out.ok) =>
        LET t1 == prev.arg.t
            t2 == res.arg.t
            m1 == InstSec(t1) \div 60
            m2 == InstSec(t2) \div 60
            d1 == Components(prev.out.id).counter
            d2 == Components(res.out.id).counter
        IN  /\ (InstDay(t1) < InstDay(t2) \/ (InstDay(t1) = InstDay(t2) /\ m1 < m2)) =>
                   Less(prev.out.id, res.out.id)
            /\ (InstDay(t1) = InstDay(t2) /\ m1 = m2) =>
                   /\ d1 < d2 => Less(prev.out.id, res.out.id)
                   /\ d1 > d2 => Less(res.out.id, prev.out.id)

(* C11 as stated: GenerateWithComponents(t, disc) fails with the past-epoch *)
(* error exactly when t is before the epoch, with the future-range error   *)
(* exactly when t is 32768 days or more after it, with a discriminator     *)
(* overflow error whenever disc > 16383, and succeeds in every other case. *)
C11_RangeRejectionAsStated ==
    res.op = "GenerateWithComponents" =>
        /\ res.out.err = "errTimePast" <=> InstDay(res.arg.t) < 0
        /\ res.out.err = "errTimeFuture" <=> InstDay(res.arg.t) >= 32768
        /\ res.arg.disc > 16383 => res.out.err = "counter value overflow"
        /\ (ValidTime(res.arg.t) /\ res.arg.disc <= 16383) => res.out.ok

(* C11 amended: GenerateWithComponents(t, disc) fails with a discriminator *)
(* overflow error whenever disc > 16383, whatever t is; for disc <= 16383  *)
(* it fails with the past-epoch error exactly when t is before the epoch,  *)
(* with the future-range error exactly when t is 32768 days or more after  *)
(* it, and succeeds in every other case.                                   *)
C11_RangeRejection ==
    res.op = "GenerateWithComponents" =>
        /\ res.arg.disc > 16383 =>
               (~res.out.ok /\ res.out.err = "counter value overflow")
        /\ res.arg.disc <= 16383 =>
               /\ res.out.err = "errTimePast" <=> InstDay(res.arg.t) < 0
               /\ res.out.err = "errTimeFuture" <=> InstDay(res.arg.t) >= 32768
               /\ res.out.ok <=> ValidTime(res.arg.t)
               /\ ~res.out.ok => res.out.err \in {"errTimePast", "errTimeFuture"}

\* the last second of day 32767, told on the clock of a zone 14 hours ahead
C11_Witness ==
    /\ res.op = "GenerateWithComponents"
    /\ res.arg.t = At(32767, 86399, 14 * 3600)
    /\ res.arg.disc = 16383
    /\ res.out.ok
    /\ Components(res.out.id).days = 32767

\* c with a lowercase letter put in upper case, then I and L read as 1, O as 0
Fold(c) ==
    LET u == IF c >= 97 /\ c <= 122 THEN c - 32 ELSE c
    IN  IF u \in {73, 76} THEN 49 ELSE IF u = 79 THEN 48 ELSE u

\* the place of symbol c in 0123456789ABCDEFGHJKMNPQRSTVWXYZ, from 0
IndexOf(c) == CHOOSE i \in 0..31 : encodeAlphabet[i + 1] = c

(* C12: for a text s of 8 accepted characters Parse(s) equals Parse of s   *)
(* folded (upper-cased, I and L read as 1, O as 0), and is the value whose *)
(* 5-bit groups, left to right, are the places of the folded characters in *)
(* the alphabet; the computed and the written-out decode tables map every  *)
(* byte alike.                                                             *)
C12_DecodeFolding ==
    /\ (/\ res.op \in {"Parse", "ParseLiteral"}
        /\ Len(res.arg.s) = 8
        /\ \A i \in 1..8 : res.arg.s[i] \in AcceptedChars) =>
           LET folded == [i \in 1..8 |-> Fold(res.arg.s[i])]
           IN  /\ res.out.ok
               /\ \A i \in 1..8 : GroupOf(res.out.id, i) = IndexOf(folded[i])
               /\ \A k \in 41..64 : res.out.id[k] = 0
               /\ res.out = Parse(folded)
               /\ res.out = ParseLiteral(folded)
    /\ \A b \in 0..255 :
           /\ b \in DOMAIN decodeAlphabet <=> b \in DOMAIN decodeAlphabetLiteral
           /\ b \in DOMAIN decodeAlphabet => decodeAlphabet[b] = decodeAlphabetLiteral[b]

\* "0f5vL3yh": a capital L among lowercase letters, read as 1
C12_Witness ==
    /\ res.op = "Parse"
    /\ res.arg.s = <<48, 102, 53, 118, 76, 51, 121, 104>>
    /\ res.out.ok
    /\ GroupOf(res.out.id, 5) = 1
    /\ GroupOf(res.out.id, 2) = 15

\* no call of next is under way
Quiescent == \A p \in Procs : pc[p] = "lock"

(* C13: of k <= 16384 calls of next made by concurrent goroutines on a     *)
(* fresh counter, with timestamps of one UTC minute, no value is returned  *)
(* twice, and once the k calls have returned their values are exactly      *)
(* 0..k-1 and the counter's value is k - 1, whatever the interleaving.     *)
C13_LockSerializes ==
    calls <= 16384 =>
        /\ ~last.dup
        /\ \A p \in Procs, q \in Procs : SameMinute(now[p], now[q])
        /\ Quiescent =>
               /\ last.low = calls
               /\ last.rest = {}
               /\ calls > 0 => mc.value = calls - 1

\* all 16384 values of the minute handed out, and every call returned
C13_Witness ==
    /\ Quiescent
    /\ calls = 16384
    /\ last = [low |-> 16384, rest |-> {}, dup |-> FALSE]
    /\ mc.value = 16383
    /\ mu = NoProc

=============================================================================
